---------------------------- MODULE Spec2Model ----------------------------
(***************************************************************************)
(* The gamification engine of statsService.ts (src/unnamed/part_001) over  *)
(* one user_stats row of the remote store (src/unnamed/part_000).          *)
(*                                                                         *)
(* generateResponse of geminiService.ts (src/services/geminiService.ts) is  *)
(* modelled beside it, on its own variables, in SpecGemini.                *)
(*                                                                         *)
(* Every engine function is async.  The only shared state is the store    *)
(* row, so one atomic step of the model is one store access (a select or  *)
(* an update) together with the local computation that follows it up to   *)
(* the next store access.  Each caller (a browser tab, or an overlapping   *)
(* async call) has a call stack of frames; the frame on top is the one     *)
(* whose store access is pending.                                          *)
(*                                                                         *)
(* Abstractions: a stored badge is its id (name and unlockedAt are never   *)
(* read back by the engine); last_message_at is not modelled; the message  *)
(* text of processUserInteraction is unused by the code and omitted.  The  *)
(* local hour read by incrementMessageCount is the hour of the call, and   *)
(* the session changes only between calls.                                 *)
(*                                                                         *)
(* Specifications: Spec (one caller, store failures, guest sessions),      *)
(* SpecUpdate (Spec with direct updateUserStats calls), SpecSolo (one      *)
(* signed-in caller, no failure), SpecTopics (only addExploredTopic calls  *)
(* on a fresh row), SpecRace (two callers whose calls overlap),            *)
(* SpecScholar (one signed-in caller on rows around level 5), SpecAccount   *)
(* (one signed-in caller that never calls addExperience itself).           *)
(***************************************************************************)
EXTENDS Integers, Sequences, FiniteSets, TLC

\* ------------------------------------------------------------ frames
\* The frames a call starts with: fn is the function, pc its pending store access.
\* (They stand first in the module so that TLC's order of the field names fn and pc
\* is the written one: TLC shares the frame of a call between its workers.)
incrementMessageCountFrame ==
    [fn |-> "incrementMessageCount", pc |-> "read"]
addExperienceFrame(xpAmount) ==
    [fn |-> "addExperience", pc |-> "read", xpAmount |-> xpAmount]
unlockBadgeFrame(badgeId) ==
    [fn |-> "unlockBadge", pc |-> "read", badgeId |-> badgeId]
addExploredTopicFrame(topic) ==
    [fn |-> "addExploredTopic", pc |-> "read", topic |-> topic]
processUserInteractionFrame(topics) ==
    [fn |-> "processUserInteraction", pc |-> "old", topics |-> topics]

\* ------------------------------------------------------------ bounds
\* calls the caller may start when the store may fail and the session may change
MaxCalls == 2
\* calls the signed-in caller may start when the store never fails
MaxSoloCalls == 4
\* addExploredTopic calls in the specification that makes no other call
MaxTopicCalls == 4
\* calls two concurrent callers may start between them
MaxRaceCalls == 2
\* store requests (select or update) that may fail in one behaviour
MaxFaults == 1
\* calls the caller may start on a row near level 5
MaxScholarCalls == 2
\* calls the caller may start when it never calls addExperience itself
MaxAccountCalls == 4

\* ------------------------------------------------------------ data
Procs == {"tab1", "tab2"}
NoUser == "none"
TheUser == "u1"

Topics == {"food", "transit", "housing", "clubs"}
\* the topic lists one message is tagged with: none, two topics, one topic twice
TopicLists == {<<>>, <<"food", "transit">>, <<"housing", "housing">>}

\* representative local hours at the two edges of the night window
Hours == {5, 6, 22}
XpAmounts == {10, 100}

\* what a direct caller of updateUserStats passes: a level alone, a level that
\* contradicts the experience, an experience alone, a message count alone
UpdateArgs ==
    << [level |-> 7], [experience |-> 250, level |-> 1], [experience |-> 99],
       [messagesCount |-> 5] >>

\* the badge catalogue of ../constants, in catalogue order, all locked
INITIAL_BADGES ==
    << [id |-> "freshman", unlocked |-> FALSE],
       [id |-> "explorer", unlocked |-> FALSE],
       [id |-> "scholar", unlocked |-> FALSE],
       [id |-> "night_owl", unlocked |-> FALSE] >>

CatalogueIds == {INITIAL_BADGES[i].id : i \in DOMAIN INITIAL_BADGES}
BadgeArgs == CatalogueIds \cup {"no_such_badge"}

\* the default progress returned for a guest or on a read error
DefaultStats ==
    [experience |-> 0, level |-> 1, badges |-> INITIAL_BADGES, nextLevelXP |-> 100,
     topicsExplored |-> <<>>, messagesCount |-> 0]

\* a user_stats row as the sign-up flow creates it
FreshRow ==
    [experience_points |-> 0, level |-> 1, total_messages |-> 0,
     badges_unlocked |-> <<>>, topics_explored |-> <<>>]

\* a row the engine produces after 24 messages, one of them at night, and
\* three topics: 390 = 10 * 24 + 50 * 3
VeteranRow ==
    [experience_points |-> 390, level |-> 4, total_messages |-> 24,
     badges_unlocked |-> <<"freshman", "explorer", "night_owl">>,
     topics_explored |-> <<"food", "transit", "housing">>]

InitRows == {FreshRow, VeteranRow}

\* the veteran's row five messages later, none of them sent through
\* processUserInteraction: level 5 with scholar locked, 440 = 10 * 29 + 50 * 3
SeniorRow ==
    [experience_points |-> 440, level |-> 5, total_messages |-> 29,
     badges_unlocked |-> <<"freshman", "explorer", "night_owl">>,
     topics_explored |-> <<"food", "transit", "housing">>]

\* ------------------------------------------------------------ pure functions
Range(s) == {s[i] : i \in DOMAIN s}

calculateNextLevelXP(level) == level * 100

calculateLevel(xp) == (xp \div 100) + 1

\* getUserStats, lines 44-58: the stored row merged with the catalogue
mergedStats(r) ==
    [experience |-> r.experience_points,
     level |-> r.level,
     badges |-> [i \in DOMAIN INITIAL_BADGES |->
                   [id |-> INITIAL_BADGES[i].id,
                    unlocked |-> \E j \in DOMAIN r.badges_unlocked :
                                    r.badges_unlocked[j] = INITIAL_BADGES[i].id]],
     nextLevelXP |-> calculateNextLevelXP(r.level),
     topicsExplored |-> r.topics_explored,
     messagesCount |-> r.total_messages]

\* variant of getUserStats with a slip: the select's error is not looked at
getUserStatsIgnoringError(uid, r, error) ==
    IF uid = NoUser THEN DefaultStats ELSE mergedStats(r)

\* getUserStats: uid is what getUserId() resolved to, r the stored row,
\* error whether the select came back with an error
getUserStats(uid, r, error) ==
    IF uid = NoUser THEN DefaultStats
    ELSE IF error THEN DefaultStats
    ELSE mergedStats(r)

IsUnlocked(b) == b.unlocked

\* updateUserStats: the unlocked badges of updates.badges, as they are stored
unlockedBadges(badges) ==
    LET kept == SelectSeq(badges, IsUnlocked)
    IN  [i \in DOMAIN kept |-> kept[i].id]

\* the fields of updates other than experience and level, applied to row r1
otherFields(r1, updates) ==
    LET r2 == IF "badges" \in DOMAIN updates
              THEN [r1 EXCEPT !.badges_unlocked = unlockedBadges(updates.badges)]
              ELSE r1
        r3 == IF "topicsExplored" \in DOMAIN updates
              THEN [r2 EXCEPT !.topics_explored = updates.topicsExplored]
              ELSE r2
    IN  IF "messagesCount" \in DOMAIN updates
        THEN [r3 EXCEPT !.total_messages = updates.messagesCount]
        ELSE r3

\* variant of updateData with a slip: a level the caller passes is stored as passed
updateDataStoringLevel(r, updates) ==
    LET r0 == IF "experience" \in DOMAIN updates
              THEN [r EXCEPT !.experience_points = updates.experience,
                             !.level = calculateLevel(updates.experience)]
              ELSE r
        r1 == IF "level" \in DOMAIN updates
              THEN [r0 EXCEPT !.level = updates.level]
              ELSE r0
    IN  otherFields(r1, updates)

\* the row after updateUserStats(updates) reached the store: updates is a
\* record holding only the fields the caller passed
updateData(r, updates) ==
    LET r1 == IF "experience" \in DOMAIN updates
              THEN [r EXCEPT !.experience_points = updates.experience,
                             !.level = calculateLevel(updates.experience)]
              ELSE r
    IN  otherFields(r1, updates)

\* variant of resetData with a slip: topics_explored is left out of the update
resetDataKeepingTopics(r) ==
    [r EXCEPT !.experience_points = 0, !.level = 1, !.total_messages = 0,
              !.badges_unlocked = <<>>]

\* variant of resetData with a slip: badges_unlocked is left out of the update
resetDataKeepingBadges(r) ==
    [r EXCEPT !.experience_points = 0, !.level = 1, !.total_messages = 0,
              !.topics_explored = <<>>]

\* the row resetUserStats writes
resetData(r) ==
    [r EXCEPT !.experience_points = 0, !.level = 1, !.total_messages = 0,
              !.badges_unlocked = <<>>, !.topics_explored = <<>>]


\* ------------------------------------------------------------ predicates of the code
\* unlockBadge: the badge with this id in the caller's snapshot, if any
FindBadge(stats, badgeId) ==
    {i \in DOMAIN stats.badges : stats.badges[i].id = badgeId}

\* variant of CannotUnlock with a slip: only an unknown id is turned away
CannotUnlockUnknown(stats, badgeId) == FindBadge(stats, badgeId) = {}

\* variant of CannotUnlock with a slip: a badge that was not found is not turned away
CannotUnlockFound(stats, badgeId) ==
    \E i \in FindBadge(stats, badgeId) : stats.badges[i].unlocked

\* unlockBadge: if (!badge || badge.unlocked) return false
CannotUnlock(stats, badgeId) ==
    \/ FindBadge(stats, badgeId) = {}
    \/ \E i \in FindBadge(stats, badgeId) : stats.badges[i].unlocked

\* unlockBadge: updatedBadges
updatedBadges(stats, badgeId) ==
    [i \in DOMAIN stats.badges |->
        IF stats.badges[i].id = badgeId
        THEN [stats.badges[i] EXCEPT !.unlocked = TRUE]
        ELSE stats.badges[i]]

\* variant of includes with a slip: only the topic stored last is compared
includesLast(topicsExplored, topic) ==
    topicsExplored # <<>> /\ topicsExplored[Len(topicsExplored)] = topic

\* addExploredTopic: currentStats.topicsExplored.includes(topic)
includes(topicsExplored, topic) ==
    \E i \in DOMAIN topicsExplored : topicsExplored[i] = topic

\* variant of ExplorerDue with a slip: one topic too early
ExplorerDueAtTwo(updatedTopics) == Len(updatedTopics) >= 2

\* addExploredTopic: updatedTopics.length >= 3
ExplorerDue(updatedTopics) == Len(updatedTopics) >= 3

\* incrementMessageCount: newCount === 1
FreshmanDue(newCount) == newCount = 1

\* variant of NightOwlDue with a slip: the window opens after 22h
NightOwlDueAfter22(hour) == hour > 22 \/ hour < 6

\* incrementMessageCount: hour >= 22 || hour < 6
NightOwlDue(hour) == hour >= 22 \/ hour < 6

\* variant of ScholarDue with a slip: level 5 itself is not enough
ScholarDueAboveFive(newStats) == newStats.level > 5

\* processUserInteraction: newStats.level >= 5
ScholarDue(newStats) == newStats.level >= 5

\* variant of leveledUp with a slip: an unchanged level counts
leveledUpOrSame(oldStats, newStats) == newStats.level >= oldStats.level

\* processUserInteraction: newStats.level > oldStats.level
leveledUp(oldStats, newStats) == newStats.level > oldStats.level

\* variant of newBadges with a slip: the first snapshot is left out of the filter
newBadgesUnlockedNow(oldStats, newStats) == SelectSeq(newStats.badges, IsUnlocked)

\* processUserInteraction: the positional filter of newStats.badges
newBadges(oldStats, newStats) ==
    LET keep(i) == newStats.badges[i].unlocked /\ ~oldStats.badges[i].unlocked
        F[i \in 0..Len(newStats.badges)] ==
            IF i = 0 THEN <<>>
            ELSE IF keep(i) THEN Append(F[i - 1], newStats.badges[i]) ELSE F[i - 1]
    IN  F[Len(newStats.badges)]

\* ------------------------------------------------------------ state
VARIABLES
    userId,     \* what getUserId() resolves to: TheUser, or NoUser for a guest
    row,        \* the user_stats row of TheUser in the store
    stack,      \* per caller: the frames of its pending async calls, top first
    call,       \* per caller: the engine call it made last (function, argument,
                \* local hour, and the stored row when the call was made)
    result,     \* per caller: how that call ended (running, a value, an error)
    prev,       \* per caller: when that call repeats the one just before it (same
                \* function, same argument), how the earlier one ended and the row
                \* it started from
    tabs,       \* the callers that make calls
    budget,     \* calls that may still be started
    faults      \* store requests that may still fail

\* the state of geminiService.ts (src/services/geminiService.ts)
VARIABLES
    env,        \* import.meta.env: VITE_GEMINI_API_KEY and VITE_GOOGLE_API_KEY
    ai,         \* the module's lazily created client: "null" or "client"
    chat        \* the generateResponse call: where it is, its locals, its outcome

statsVars == <<userId, row, stack, call, result, prev, tabs, budget, faults>>
gemini == <<env, ai, chat>>
vars == <<userId, row, stack, call, result, prev, tabs, budget, faults, env, ai, chat>>

\* no key in the environment, no client, no generateResponse call
NoEnv == [VITE_GEMINI_API_KEY |-> "", VITE_GOOGLE_API_KEY |-> ""]
NoChat == [pc |-> "idle"]

Running == [kind |-> "running"]
Value(v) == [kind |-> "value", val |-> v]
Raised(msg) == [kind |-> "raised", val |-> msg]
NoCall == [fn |-> "none", arg |-> "none", hour |-> 12, pre |-> FreshRow]
NoPrev == [kind |-> "none"]

\* what a step leaves behind: the caller's new stack and the call's result
Goes(stk) == [stk |-> stk, res |-> Running]
Throws(msg) == [stk |-> <<>>, res |-> Raised(msg)]

\* Control returns, with value val, to the frames of stk (the callee is already
\* popped); hour is what new Date().getHours() gives.  The local code runs on
\* until the next store access or the end of the outermost call.
RECURSIVE Return(_, _, _)
Return(stk, val, hour) ==
    IF stk = <<>> THEN [stk |-> <<>>, res |-> Value(val)]
    ELSE
    LET f == Head(stk)
        rest == Tail(stk)
    IN  CASE f.fn = "unlockBadge" ->
                \* after addExperience(50): return true
                Return(rest, TRUE, hour)
          [] f.fn = "addExploredTopic" ->
                \* after unlockBadge('explorer')
                Return(rest, "void", hour)
          [] f.fn = "incrementMessageCount" ->
                IF f.pc = "xp" /\ FreshmanDue(f.newCount)
                THEN Goes(<<unlockBadgeFrame("freshman"),
                            [f EXCEPT !.pc = "freshman"]>> \o rest)
                ELSE IF f.pc \in {"xp", "freshman"} /\ NightOwlDue(hour)
                THEN Goes(<<unlockBadgeFrame("night_owl"),
                            [f EXCEPT !.pc = "night_owl"]>> \o rest)
                ELSE Return(rest, "void", hour)
          [] f.fn = "processUserInteraction" ->
                IF f.pc \in {"inc", "topic"}
                THEN IF f.topics # <<>>
                     THEN Goes(<<addExploredTopicFrame(Head(f.topics)),
                                 [f EXCEPT !.pc = "topic", !.topics = Tail(f.topics)]>>
                               \o rest)
                     ELSE Goes(<<[f EXCEPT !.pc = "new"]>> \o rest)
                ELSE \* after unlockBadge('scholar')
                     Return(rest, f.ret, hour)


\* ------------------------------------------------------------ the store
\* a select may come back with an error only when it is sent (a guest's
\* getUserStats returns before it) and while failures remain
SelectErrors == IF userId # NoUser /\ faults > 0 THEN {FALSE, TRUE} ELSE {FALSE}
UpdateErrors == IF faults > 0 THEN {FALSE, TRUE} ELSE {FALSE}
Cost(error) == IF error THEN 1 ELSE 0

top(p) == Head(stack[p])
rest(p) == Tail(stack[p])
At(p, fn, pc) == stack[p] # <<>> /\ top(p).fn = fn /\ top(p).pc = pc

\* the caller's step ends in out, with the store row and the failures left as given
Commit(p, out, newRow, error) ==
    /\ stack' = [stack EXCEPT ![p] = out.stk]
    /\ result' = [result EXCEPT ![p] = out.res]
    /\ row' = newRow
    /\ faults' = faults - Cost(error)
    /\ UNCHANGED <<userId, call, prev, tabs, budget>>
    /\ UNCHANGED gemini

\* variant of updateUserStats with a slip: the update's error is logged, not thrown
updateUserStatsSwallowing(p, updates, next) ==
    IF userId = NoUser
    THEN Commit(p, Throws("User not authenticated"), row, FALSE)
    ELSE \E error \in UpdateErrors :
            IF error
            THEN Commit(p, next, row, TRUE)
            ELSE Commit(p, next, updateData(row, updates), FALSE)

\* updateUserStats(updates) by caller p, then the continuation next if it resolved
updateUserStats(p, updates, next) ==
    IF userId = NoUser
    THEN Commit(p, Throws("User not authenticated"), row, FALSE)
    ELSE \E error \in UpdateErrors :
            IF error
            THEN Commit(p, Throws("store error"), row, TRUE)
            ELSE Commit(p, next, updateData(row, updates), FALSE)

\* ------------------------------------------------------------ calls
Idle(p) == stack[p] = <<>>

Start(p, fn, arg, hour, frame) ==
    /\ Idle(p)
    /\ p \in tabs
    /\ budget > 0
    /\ budget' = budget - 1
    /\ stack' = [stack EXCEPT ![p] = <<frame>>]
    /\ call' = [call EXCEPT ![p] = [fn |-> fn, arg |-> arg, hour |-> hour, pre |-> row]]
    /\ prev' = [prev EXCEPT ![p] =
                    IF call[p].fn = fn /\ call[p].arg = arg
                    THEN [kind |-> "same", result |-> result[p], pre |-> call[p].pre]
                    ELSE NoPrev]
    /\ result' = [result EXCEPT ![p] = Running]
    /\ UNCHANGED <<userId, row, tabs, faults>>
    /\ UNCHANGED gemini

CallGetUserStats(p) ==
    Start(p, "getUserStats", "none", 12, [fn |-> "getUserStats", pc |-> "read"])

CallAddExperience(p) ==
    \E xpAmount \in XpAmounts :
        Start(p, "addExperience", xpAmount, 12, addExperienceFrame(xpAmount))

CallUnlockBadge(p) ==
    \E badgeId \in BadgeArgs :
        Start(p, "unlockBadge", badgeId, 12, unlockBadgeFrame(badgeId))

CallAddExploredTopic(p) ==
    \E topic \in Topics :
        Start(p, "addExploredTopic", topic, 12, addExploredTopicFrame(topic))

CallIncrementMessageCount(p) ==
    \E hour \in Hours :
        Start(p, "incrementMessageCount", "none", hour, incrementMessageCountFrame)

CallProcessUserInteraction(p) ==
    \E topics \in TopicLists, hour \in Hours :
        Start(p, "processUserInteraction", topics, hour,
              processUserInteractionFrame(topics))

CallResetUserStats(p) ==
    Start(p, "resetUserStats", "none", 12, [fn |-> "resetUserStats", pc |-> "write"])

CallUpdateUserStats(p) ==
    \E i \in DOMAIN UpdateArgs :
        Start(p, "updateUserStats", i, 12,
              [fn |-> "updateUserStats", pc |-> "write", updates |-> UpdateArgs[i]])

\* ------------------------------------------------------------ steps
\* getUserStats called directly: lines 11-59
GetUserStatsRead(p) ==
    /\ At(p, "getUserStats", "read")
    /\ \E error \in SelectErrors :
          Commit(p, Return(rest(p), getUserStats(userId, row, error), call[p].hour),
                 row, error)

\* addExperience: const currentStats = await getUserStats()
AddExperienceRead(p) ==
    /\ At(p, "addExperience", "read")
    /\ \E error \in SelectErrors :
          LET currentStats == getUserStats(userId, row, error)
              f == [fn |-> "addExperience", pc |-> "write",
                    xpAmount |-> top(p).xpAmount, currentStats |-> currentStats]
          IN  Commit(p, Goes(<<f>> \o rest(p)), row, error)

\* addExperience: await updateUserStats({experience: newXP}); return {...}
AddExperienceWrite(p) ==
    /\ At(p, "addExperience", "write")
    /\ LET currentStats == top(p).currentStats
           newXP == currentStats.experience + top(p).xpAmount
           newLevel == calculateLevel(newXP)
           ret == [currentStats EXCEPT !.experience = newXP, !.level = newLevel,
                                       !.nextLevelXP = calculateNextLevelXP(newLevel)]
       IN  updateUserStats(p, [experience |-> newXP],
                           Return(rest(p), ret, call[p].hour))

\* unlockBadge: read, and return false for an unknown or unlocked badge
UnlockBadgeRead(p) ==
    /\ At(p, "unlockBadge", "read")
    /\ \E error \in SelectErrors :
          LET currentStats == getUserStats(userId, row, error)
              f == [fn |-> "unlockBadge", pc |-> "write",
                    badgeId |-> top(p).badgeId, currentStats |-> currentStats]
          IN  IF CannotUnlock(currentStats, top(p).badgeId)
              THEN Commit(p, Return(rest(p), FALSE, call[p].hour), row, error)
              ELSE Commit(p, Goes(<<f>> \o rest(p)), row, error)

\* unlockBadge: await updateUserStats({badges}); await addExperience(50)
UnlockBadgeWrite(p) ==
    /\ At(p, "unlockBadge", "write")
    /\ LET f == [top(p) EXCEPT !.pc = "xp"]
       IN  updateUserStats(p,
               [badges |-> updatedBadges(top(p).currentStats, top(p).badgeId)],
               Goes(<<addExperienceFrame(50), f>> \o rest(p)))

\* addExploredTopic: read, and return for a topic already there
AddExploredTopicRead(p) ==
    /\ At(p, "addExploredTopic", "read")
    /\ \E error \in SelectErrors :
          LET currentStats == getUserStats(userId, row, error)
              f == [fn |-> "addExploredTopic", pc |-> "write",
                    topic |-> top(p).topic, currentStats |-> currentStats]
          IN  IF includes(currentStats.topicsExplored, top(p).topic)
              THEN Commit(p, Return(rest(p), "void", call[p].hour), row, error)
              ELSE Commit(p, Goes(<<f>> \o rest(p)), row, error)

\* addExploredTopic: write updatedTopics, then the explorer check
AddExploredTopicWrite(p) ==
    /\ At(p, "addExploredTopic", "write")
    /\ LET updatedTopics == Append(top(p).currentStats.topicsExplored, top(p).topic)
           f == [top(p) EXCEPT !.pc = "explorer"]
       IN  updateUserStats(p, [topicsExplored |-> updatedTopics],
               IF ExplorerDue(updatedTopics)
               THEN Goes(<<unlockBadgeFrame("explorer"), f>> \o rest(p))
               ELSE Return(rest(p), "void", call[p].hour))

\* incrementMessageCount: read, newCount
IncrementMessageCountRead(p) ==
    /\ At(p, "incrementMessageCount", "read")
    /\ \E error \in SelectErrors :
          LET currentStats == getUserStats(userId, row, error)
              f == [fn |-> "incrementMessageCount", pc |-> "write",
                    newCount |-> currentStats.messagesCount + 1]
          IN  Commit(p, Goes(<<f>> \o rest(p)), row, error)

\* variant of IncrementMessageCountWrite with a slip: the count written is one more
\* than the count stored now, not the count read
IncrementMessageCountWriteAtomic(p) ==
    /\ At(p, "incrementMessageCount", "write")
    /\ LET f == [top(p) EXCEPT !.pc = "xp"]
       IN  updateUserStats(p, [messagesCount |-> row.total_messages + 1],
               Goes(<<addExperienceFrame(10), f>> \o rest(p)))

\* incrementMessageCount: write the count, then await addExperience(10)
IncrementMessageCountWrite(p) ==
    /\ At(p, "incrementMessageCount", "write")
    /\ LET f == [top(p) EXCEPT !.pc = "xp"]
       IN  updateUserStats(p, [messagesCount |-> top(p).newCount],
               Goes(<<addExperienceFrame(10), f>> \o rest(p)))

\* processUserInteraction: oldStats, then await incrementMessageCount()
ProcessUserInteractionOld(p) ==
    /\ At(p, "processUserInteraction", "old")
    /\ \E error \in SelectErrors :
          LET oldStats == getUserStats(userId, row, error)
              f == [fn |-> "processUserInteraction", pc |-> "inc",
                    topics |-> top(p).topics, oldStats |-> oldStats]
          IN  Commit(p, Goes(<<incrementMessageCountFrame, f>> \o rest(p)), row, error)

\* processUserInteraction: newStats, the diff, the scholar check
ProcessUserInteractionNew(p) ==
    /\ At(p, "processUserInteraction", "new")
    /\ \E error \in SelectErrors :
          LET newStats == getUserStats(userId, row, error)
              oldStats == top(p).oldStats
              ret == [newBadges |-> newBadges(oldStats, newStats),
                      leveledUp |-> leveledUp(oldStats, newStats)]
              f == [fn |-> "processUserInteraction", pc |-> "scholar", ret |-> ret]
          IN  IF ScholarDue(newStats)
              THEN Commit(p, Goes(<<unlockBadgeFrame("scholar"), f>> \o rest(p)),
                          row, error)
              ELSE Commit(p, Return(rest(p), ret, call[p].hour), row, error)

\* resetUserStats: one update of the five fields
ResetUserStatsWrite(p) ==
    /\ At(p, "resetUserStats", "write")
    /\ IF userId = NoUser
       THEN Commit(p, Throws("User not authenticated"), row, FALSE)
       ELSE \E error \in UpdateErrors :
               IF error
               THEN Commit(p, Throws("store error"), row, TRUE)
               ELSE Commit(p, Return(rest(p), "void", call[p].hour),
                           resetData(row), FALSE)

\* updateUserStats called directly
UpdateUserStatsWrite(p) ==
    /\ At(p, "updateUserStats", "write")
    /\ updateUserStats(p, top(p).updates, Return(rest(p), "void", call[p].hour))

\* ------------------------------------------------------------ the session
\* the auth provider signs the user in or out between calls of the engine
SignIn ==
    /\ userId = NoUser
    /\ userId' = TheUser
    /\ \A p \in Procs : Idle(p)
    /\ UNCHANGED <<row, stack, call, result, prev, tabs, budget, faults>>
    /\ UNCHANGED gemini

SignOut ==
    /\ userId = TheUser
    /\ userId' = NoUser
    /\ \A p \in Procs : Idle(p)
    /\ UNCHANGED <<row, stack, call, result, prev, tabs, budget, faults>>
    /\ UNCHANGED gemini

\* ------------------------------------------------------------ specifications
Boot(users, rows, callers, calls, nfaults) ==
    /\ userId \in users
    /\ row \in rows
    /\ stack = [p \in Procs |-> <<>>]
    /\ call = [p \in Procs |-> NoCall]
    /\ result = [p \in Procs |-> [kind |-> "none"]]
    /\ prev = [p \in Procs |-> NoPrev]
    /\ tabs = callers
    /\ budget = calls
    /\ faults = nfaults
    /\ env = NoEnv
    /\ ai = "null"
    /\ chat = NoChat

Calls(p) ==
    \/ CallGetUserStats(p)
    \/ CallAddExperience(p)
    \/ CallUnlockBadge(p)
    \/ CallAddExploredTopic(p)
    \/ CallIncrementMessageCount(p)
    \/ CallProcessUserInteraction(p)
    \/ CallResetUserStats(p)

Steps(p) ==
    \/ GetUserStatsRead(p)
    \/ AddExperienceRead(p)
    \/ AddExperienceWrite(p)
    \/ UnlockBadgeRead(p)
    \/ UnlockBadgeWrite(p)
    \/ AddExploredTopicRead(p)
    \/ AddExploredTopicWrite(p)
    \/ IncrementMessageCountRead(p)
    \/ IncrementMessageCountWrite(p)
    \/ ProcessUserInteractionOld(p)
    \/ ProcessUserInteractionNew(p)
    \/ ResetUserStatsWrite(p)

\* one caller, a session that may be signed in or out, store failures
Init == Boot({TheUser, NoUser}, InitRows, {"tab1"}, MaxCalls, MaxFaults)

Next ==
    \/ \E p \in Procs : Calls(p)
    \/ \E p \in Procs : Steps(p)
    \/ SignIn
    \/ SignOut

Spec == Init /\ [][Next]_vars

\* one signed-in caller, one call after the other, a store that never fails
InitSolo ==
    Boot({TheUser}, InitRows, {"tab1"}, MaxSoloCalls, 0)

NextSolo ==
    \/ \E p \in Procs : Calls(p)
    \/ \E p \in Procs : Steps(p)

SpecSolo == InitSolo /\ [][NextSolo]_vars

\* as Spec, with a caller that also calls updateUserStats directly
NextUpdate ==
    \/ Next
    \/ \E p \in Procs : CallUpdateUserStats(p)
    \/ \E p \in Procs : UpdateUserStatsWrite(p)

SpecUpdate == Init /\ [][NextUpdate]_vars

\* a fresh signed-in user whose caller only calls addExploredTopic
InitTopics == Boot({TheUser}, {FreshRow}, {"tab1"}, MaxTopicCalls, 0)

NextTopics ==
    \E p \in Procs :
        \/ CallAddExploredTopic(p)
        \/ AddExploredTopicRead(p)
        \/ AddExploredTopicWrite(p)
        \/ UnlockBadgeRead(p)
        \/ UnlockBadgeWrite(p)
        \/ AddExperienceRead(p)
        \/ AddExperienceWrite(p)

SpecTopics == InitTopics /\ [][NextTopics]_vars

\* one signed-in caller on a fresh row or a row at the threshold of level 5, a
\* store that never fails
InitScholar ==
    Boot({TheUser}, {FreshRow, VeteranRow, SeniorRow}, {"tab1"}, MaxScholarCalls, 0)

SpecScholar == InitScholar /\ [][NextSolo]_vars

\* one signed-in caller on a fresh row that leaves addExperience to the engine: it
\* calls incrementMessageCount, addExploredTopic, unlockBadge, processUserInteraction
\* and resetUserStats; a store that never fails
InitAccount == Boot({TheUser}, {FreshRow}, {"tab1"}, MaxAccountCalls, 0)

NextAccount ==
    \/ \E p \in Procs :
          \/ CallUnlockBadge(p)
          \/ CallAddExploredTopic(p)
          \/ CallIncrementMessageCount(p)
          \/ CallProcessUserInteraction(p)
          \/ CallResetUserStats(p)
    \/ \E p \in Procs :
          \/ AddExperienceRead(p)
          \/ AddExperienceWrite(p)
          \/ UnlockBadgeRead(p)
          \/ UnlockBadgeWrite(p)
          \/ AddExploredTopicRead(p)
          \/ AddExploredTopicWrite(p)
          \/ IncrementMessageCountRead(p)
          \/ IncrementMessageCountWrite(p)
          \/ ProcessUserInteractionOld(p)
          \/ ProcessUserInteractionNew(p)
          \/ ResetUserStatsWrite(p)

SpecAccount == InitAccount /\ [][NextAccount]_vars

\* two callers of a signed-in user whose calls of addExperience and
\* incrementMessageCount overlap, at daytime, a store that never fails
RaceHours == {6}

InitRace == Boot({TheUser}, {FreshRow}, Procs, MaxRaceCalls, 0)

NextRace ==
    \E p \in Procs :
        \/ CallAddExperience(p)
        \/ CallIncrementMessageCount(p) /\ call'[p].hour \in RaceHours
        \/ AddExperienceRead(p)
        \/ AddExperienceWrite(p)
        \/ IncrementMessageCountRead(p)
        \/ IncrementMessageCountWrite(p)
        \/ UnlockBadgeRead(p)
        \/ UnlockBadgeWrite(p)

SpecRace == InitRace /\ [][NextRace]_vars


\* ------------------------------------------------------------ geminiService.ts
\* A string whose letters matter (a location name) is a sequence of characters;
\* a message text is an opaque string, "" when empty.
UpperCase == <<"A", "B", "C", "D", "H", "L", "S", "U">>
LowerCase == <<"a", "b", "c", "d", "h", "l", "s", "u">>

\* String.prototype.toLowerCase
toLowerCase(str) ==
    [i \in DOMAIN str |->
        IF \E k \in DOMAIN UpperCase : UpperCase[k] = str[i]
        THEN LowerCase[CHOOSE k \in DOMAIN UpperCase : UpperCase[k] = str[i]]
        ELSE str[i]]

\* String.prototype.includes
stringIncludes(str, part) ==
    \E i \in 0..(Len(str) - Len(part)) : SubSeq(str, i + 1, i + Len(part)) = part

\* the campus data sets of ./campusData, as far as generateResponse reads them: the
\* locations with their names and, where they have them, coordinates
Location(name, lat, lng) ==
    [name |-> name, hasCoordinates |-> TRUE, coordinates |-> <<lat, lng>>]
Unmapped(name) ==
    [name |-> name, hasCoordinates |-> FALSE, coordinates |-> <<>>]

DATA_UW ==
    [locations |-> << Location(<<"S", "L", "C">>, 43, 80), Unmapped(<<"D", "C">>),
                      Location(<<"D", "C", "L">>, 44, 81) >>]
DATA_UOFT == [locations |-> << Location(<<"H", "u", "b">>, 45, 79) >>]
DATA_MAC == [locations |-> << Unmapped(<<"H", "u", "b">>) >>]
DATA_WESTERN == [locations |-> << Location(<<"U", "C", "C">>, 42, 81) >>]
DATA_QUEENS == [locations |-> << >>]
DATA_TMU == [locations |-> << Location(<<"S", "L", "C">>, 46, 79) >>]

getCampusDataForId(id) ==
    CASE id = "uw" -> DATA_UW
      [] id = "uoft" -> DATA_UOFT
      [] id = "mac" -> DATA_MAC
      [] id = "western" -> DATA_WESTERN
      [] id = "queens" -> DATA_QUEENS
      [] id = "tmu" -> DATA_TMU
      [] OTHER -> DATA_UW

UniversityIds == {"uw", "uoft", "mac", "western", "queens", "tmu", "elsewhere"}

\* the environments a build can have
Envs ==
    [VITE_GEMINI_API_KEY : {"", "key1"}, VITE_GOOGLE_API_KEY : {"", "key2"}]

\* getAI, line 13: the key in use
apiKey ==
    IF env.VITE_GEMINI_API_KEY # "" THEN env.VITE_GEMINI_API_KEY
    ELSE IF env.VITE_GOOGLE_API_KEY # "" THEN env.VITE_GOOGLE_API_KEY
    ELSE ""

\* getAI: the client it returns, created on first use when there is a key
getAI == IF ai = "null" /\ apiKey = "" THEN "null" ELSE "client"

\* the values of the result's optional mapLocation
NoMap == [defined |-> FALSE]
MapAt(location) ==
    [defined |-> TRUE, lat |-> location.coordinates[1], lng |-> location.coordinates[2],
     name |-> location.name]

Resolved(text, mapLocation) ==
    [kind |-> "resolved", text |-> text, mapLocation |-> mapLocation]
Rejected == [kind |-> "rejected"]


\* the names the model may ask a map for: another case, a longer phrase, a name that
\* also matches a location without coordinates, no match, the empty string
LocNames ==
    { <<"s", "l", "c">>, <<"a", "H", "U", "B">>, <<"d", "c">>, <<"z">>, <<>> }

\* a function call of the model's response: args may be missing, and so may
\* args.location_name
DisplayMap(locName) ==
    [name |-> "display_map", hasArgs |-> TRUE, hasName |-> TRUE, location_name |-> locName]
DisplayMapUnnamed ==
    [name |-> "display_map", hasArgs |-> TRUE, hasName |-> FALSE, location_name |-> <<>>]
DisplayMapBare ==
    [name |-> "display_map", hasArgs |-> FALSE, hasName |-> FALSE, location_name |-> <<>>]
OtherTool ==
    [name |-> "other_tool", hasArgs |-> TRUE, hasName |-> FALSE, location_name |-> <<>>]

FunctionCallLists ==
    {<<>>, <<DisplayMapUnnamed>>, <<DisplayMapBare>>, <<OtherTool>>,
     <<OtherTool, DisplayMap(<<"s", "l", "c">>)>>}
    \cup {<<DisplayMap(n)>> : n \in LocNames}

\* the first part of the first candidate: none, a text part, a part without text
CandidateLists ==
    {<<>>, <<[hasText |-> TRUE, text |-> "Part"]>>, <<[hasText |-> FALSE, text |-> ""]>>}

GenerateContentThrows == [kind |-> "throws"]
NotSent == [kind |-> "none"]

\* what the first generateContent call can come back with
FirstOutcomes ==
    {GenerateContentThrows}
    \cup [kind : {"response"}, text : {"", "Hello"}, candidates : CandidateLists,
          functionCalls : FunctionCallLists]

\* what the follow-up generateContent call can come back with
SecondOutcomes ==
    {GenerateContentThrows} \cup [kind : {"response"}, text : {"", "Follow-up"}]

\* lines 124-141: finalText after the first response
firstText(response) ==
    IF response.text # "" THEN response.text
    ELSE IF Len(response.candidates) > 0 /\ response.candidates[1].hasText
    THEN response.candidates[1].text
    ELSE ""

\* lines 159-162: the predicate of campusData.locations.find
MatchesName(l, locName) ==
    \/ stringIncludes(toLowerCase(l.name), toLowerCase(locName))
    \/ stringIncludes(toLowerCase(locName), toLowerCase(l.name))

\* campusData.locations.find(...): the indexes that match; find returns the first
Found(locations, locName) == {i \in DOMAIN locations : MatchesName(locations[i], locName)}

First(indexes) == CHOOSE i \in indexes : \A j \in indexes : i <= j

\* lines 164-173: mapLocation
mapLocationOf(locations, fnCall) ==
    IF ~fnCall.hasName \/ Found(locations, fnCall.location_name) = {} THEN NoMap
    ELSE LET location == locations[First(Found(locations, fnCall.location_name))]
         IN  IF location.hasCoordinates THEN MapAt(location) ELSE NoMap

\* lines 157-162: reading call.args['location_name'] with args undefined, or calling
\* toLowerCase on an undefined location_name for a location, is a TypeError
ThrowsTypeError(locations, fnCall) ==
    \/ ~fnCall.hasArgs
    \/ ~fnCall.hasName /\ locations # <<>>

\* line 198: finalText || "I'm having trouble generating a response right now. ..."
orEmptyResponse(finalText) ==
    IF finalText # "" THEN finalText ELSE "I'm having trouble (Empty Response)"

\* variant of catchError with a slip: the error is thrown again
catchErrorRethrowing(error) == Rejected

\* lines 202-205: the catch block
catchError(error) == Resolved("Connection Error. Check console for details.", NoMap)

ChatDone(universityId, first, second, outcome) ==
    [pc |-> "done", universityId |-> universityId, first |-> first, second |-> second,
     result |-> outcome]

\* generateResponse is called: everything up to the first await
GenerateResponse ==
    /\ chat.pc \in {"idle", "done"}
    /\ \E universityId \in UniversityIds :
          /\ ai' = getAI
          /\ chat' = IF getAI = "null"
                     THEN ChatDone(universityId, NotSent, "none",
                                   Resolved("No API key configured.", NoMap))
                     ELSE [pc |-> "first", universityId |-> universityId]
    /\ UNCHANGED <<env, statsVars>>

\* the first generateContent call settles: lines 112-175, or the catch block
FirstContent ==
    /\ chat.pc = "first"
    /\ \E response \in FirstOutcomes :
          LET locations == getCampusDataForId(chat.universityId).locations
              done(outcome) == ChatDone(chat.universityId, response, "none", outcome)
          IN  chat' =
                IF response = GenerateContentThrows THEN done(catchError("network"))
                ELSE IF response.functionCalls = <<>>
                        \/ response.functionCalls[1].name # "display_map"
                THEN done(Resolved(orEmptyResponse(firstText(response)), NoMap))
                ELSE IF ThrowsTypeError(locations, response.functionCalls[1])
                THEN done(catchError("TypeError"))
                ELSE [pc |-> "second", universityId |-> chat.universityId,
                      first |-> response, finalText |-> firstText(response),
                      mapLocation |-> mapLocationOf(locations, response.functionCalls[1])]
    /\ UNCHANGED <<env, ai, statsVars>>

\* the follow-up generateContent call settles: lines 175-200, or the catch block
SecondContent ==
    /\ chat.pc = "second"
    /\ \E response \in SecondOutcomes :
          chat' =
            IF response = GenerateContentThrows
            THEN ChatDone(chat.universityId, chat.first, "threw", catchError("network"))
            ELSE LET finalText == IF response.text # "" THEN response.text
                                  ELSE chat.finalText
                 IN  ChatDone(chat.universityId, chat.first, "answered",
                              Resolved(orEmptyResponse(finalText), chat.mapLocation))
    /\ UNCHANGED <<env, ai, statsVars>>

\* a page whose build has or lacks the keys and that only talks to the model
InitGemini ==
    /\ userId = NoUser
    /\ row = FreshRow
    /\ stack = [p \in Procs |-> <<>>]
    /\ call = [p \in Procs |-> NoCall]
    /\ result = [p \in Procs |-> [kind |-> "none"]]
    /\ prev = [p \in Procs |-> NoPrev]
    /\ tabs = {}
    /\ budget = 0
    /\ faults = 0
    /\ env \in Envs
    /\ ai = "null"
    /\ chat = NoChat

NextGemini ==
    \/ GenerateResponse
    \/ FirstContent
    \/ SecondContent

SpecGemini == InitGemini /\ [][NextGemini]_vars


\* ------------------------------------------------------------ what the claims speak of
Unlocked(r) == Range(r.badges_unlocked)
Finished(p, fn) == Idle(p) /\ call[p].fn = fn /\ result[p].kind = "value"
IdsOf(badges) == {badges[i].id : i \in DOMAIN badges}
NoDuplicates(s) == \A i, j \in DOMAIN s : s[i] = s[j] => i = j

\* C1: in every reachable state the stored level is floor(experience_points / 100) + 1,
\* whatever sequence of updateUserStats (with an explicit level, or without an
\* experience), addExperience, unlockBadge, addExploredTopic, incrementMessageCount,
\* processUserInteraction and resetUserStats calls was made on a consistent row.
C1_LevelFollowsExperience ==
    /\ row.level * 100 > row.experience_points
    /\ (row.level - 1) * 100 <= row.experience_points
    /\ row.level >= 1

\* C1 witness: updateUserStats({experience: 250, level: 1}) has resolved and the row
\* holds level 3, not the level passed
C1_Witness ==
    \E p \in Procs :
        /\ Finished(p, "updateUserStats")
        /\ UpdateArgs[call[p].arg] = [experience |-> 250, level |-> 1]
        /\ row.experience_points = 250
        /\ row.level = 3

\* C2 (the claim as made): the stored experience never decreases in a step that is
\* not resetUserStats's update, whatever the store reads inside the calls returned.
C2_ExperienceNeverDecreases ==
    [][row'.experience_points < row.experience_points
          => \E p \in Procs : At(p, "resetUserStats", "write")]_vars

\* C3 (the claim as made): a badge id stored as unlocked stays stored in every step of
\* unlockBadge, addExploredTopic, incrementMessageCount, addExperience and
\* processUserInteraction; only resetUserStats's update removes one.
C3_BadgesNeverRelocked ==
    [][(\E b \in Unlocked(row) : b \notin Unlocked(row'))
          => \E p \in Procs : At(p, "resetUserStats", "write")]_vars


\* the second of two consecutive calls by p of fn with the same argument has ended
Repeated(p, fn) ==
    /\ Idle(p)
    /\ call[p].fn = fn
    /\ result[p].kind # "running"
    /\ prev[p].kind = "same"

\* C4: for a signed-in user and a catalogue badge that is locked, two consecutive
\* unlockBadge calls with its id return true then false, the badge is unlocked after
\* both, and the stored experience has grown by exactly 50 over the two calls.
C4_UnlockBadgeTwice ==
    \A p \in Procs :
        (/\ Repeated(p, "unlockBadge")
         /\ call[p].arg \in CatalogueIds
         /\ call[p].arg \notin Unlocked(prev[p].pre))
        => /\ prev[p].result = [kind |-> "value", val |-> TRUE]
           /\ result[p] = [kind |-> "value", val |-> FALSE]
           /\ call[p].arg \in Unlocked(row)
           /\ call[p].pre.experience_points = prev[p].pre.experience_points + 50
           /\ row.experience_points = prev[p].pre.experience_points + 50

\* C4 witness: a locked catalogue badge was unlocked by two consecutive calls
C4_Witness ==
    \E p \in Procs :
        /\ Repeated(p, "unlockBadge")
        /\ call[p].arg = "scholar"
        /\ "scholar" \notin Unlocked(prev[p].pre)
        /\ "scholar" \in Unlocked(row)

\* processUserInteraction(["food", "transit"]) by p on a fresh row has resolved
FreshInteractionDone(p) ==
    /\ Finished(p, "processUserInteraction")
    /\ call[p].arg = <<"food", "transit">>
    /\ call[p].pre = FreshRow

\* what the end-to-end scenario expects of the call's value and of the row
EndToEndExpectation(p) ==
    /\ result[p].val.leveledUp = FALSE
    /\ "freshman" \in IdsOf(result[p].val.newBadges)
    /\ "explorer" \notin IdsOf(result[p].val.newBadges)
    /\ row.experience_points = 60
    /\ row.level = 1

\* C5 (the claim as made): a fresh signed-in user's first processUserInteraction with
\* topics food and transit returns leveledUp = false and newBadges with freshman and
\* without explorer, and leaves experience 60 and level 1.
C5_EndToEnd_AnyHour ==
    \A p \in Procs : FreshInteractionDone(p) => EndToEndExpectation(p)

\* C5 (amended): the same, for a message sent at a local hour h with 6 <= h < 22
\* (at night the call also unlocks night_owl: experience 110, level 2, leveledUp true).
C5_EndToEnd_Daytime ==
    \A p \in Procs :
        (FreshInteractionDone(p) /\ call[p].hour >= 6 /\ call[p].hour < 22)
        => EndToEndExpectation(p)

\* C5 witness: the daytime scenario has run
C5_Witness ==
    \E p \in Procs :
        /\ FreshInteractionDone(p)
        /\ call[p].hour = 6
        /\ row.experience_points = 60
        /\ row.total_messages = 1
        /\ row.topics_explored = <<"food", "transit">>

\* C6: in a run of addExploredTopic calls on a fresh user, explorer is locked as long
\* as fewer than 3 distinct topics are stored, a call with a topic already stored
\* changes nothing, and explorer is unlocked once the call that stored the 3rd
\* distinct topic has resolved.
C6_ExplorerAtThirdTopic ==
    /\ "explorer" \in Unlocked(row) => Len(row.topics_explored) >= 3
    /\ \A p \in Procs :
          Finished(p, "addExploredTopic") =>
              /\ Len(row.topics_explored) >= 3 => "explorer" \in Unlocked(row)
              /\ call[p].arg \in Range(call[p].pre.topics_explored) => row = call[p].pre

\* C6 witness: the 4th call of the run stored the 3rd distinct topic (one of the
\* three calls before it repeated a topic) and has resolved
C6_Witness ==
    \E p \in Procs :
        /\ Finished(p, "addExploredTopic")
        /\ Len(call[p].pre.topics_explored) = 2
        /\ Len(row.topics_explored) = 3
        /\ "explorer" \notin Unlocked(call[p].pre)
        /\ "explorer" \in Unlocked(row)
        /\ budget = MaxTopicCalls - 4


\* C7: addExploredTopic with a topic already stored ends after its read, without a
\* store write, and leaves topics_explored, badges and experience as they were; and
\* in every reachable state topics_explored holds no string twice.
C7_TopicIdempotent ==
    /\ [](NoDuplicates(row.topics_explored))
    /\ [][\A p \in Procs :
            (/\ At(p, "addExploredTopic", "read")
             /\ Len(stack[p]) = 1
             /\ top(p).topic \in Range(row.topics_explored)
             /\ stack'[p] # stack[p])
            => /\ stack'[p] = <<>>
               /\ result'[p] = [kind |-> "value", val |-> "void"]
               /\ row' = row]_vars

\* C7 witness: the second of two consecutive addExploredTopic calls with the same
\* topic has resolved and the row is what it was before that call
C7_Witness ==
    \E p \in Procs :
        /\ Repeated(p, "addExploredTopic")
        /\ call[p].arg \notin Range(prev[p].pre.topics_explored)
        /\ call[p].arg \in Range(row.topics_explored)
        /\ row = call[p].pre

\* the badges one incrementMessageCount call is due to unlock, from the row it
\* started on and the local hour
DueBadges(pre, hour) ==
    (IF pre.total_messages + 1 = 1 THEN {"freshman"} ELSE {})
    \cup (IF hour >= 22 \/ hour < 6 THEN {"night_owl"} ELSE {})

\* C8: one incrementMessageCount call raises total_messages by exactly 1; afterwards
\* freshman is unlocked if the new count is 1 and night_owl if the hour h has h >= 22
\* or h < 6, no other badge changes, and the experience has grown by 10 plus 50 for
\* each badge the call newly unlocked.
C8_IncrementMessageCount ==
    \A p \in Procs :
        Finished(p, "incrementMessageCount") =>
            LET pre == call[p].pre
                gained == Unlocked(row) \ Unlocked(pre)
            IN  /\ row.total_messages = pre.total_messages + 1
                /\ Unlocked(row) = Unlocked(pre) \cup DueBadges(pre, call[p].hour)
                /\ row.experience_points
                      = pre.experience_points + 10 + 50 * Cardinality(gained)
                /\ row.topics_explored = pre.topics_explored

\* C8 witness: the first message of a fresh user, sent at 22h, has unlocked freshman
\* and night_owl: 10 + 50 + 50
C8_Witness ==
    \E p \in Procs :
        /\ Finished(p, "incrementMessageCount")
        /\ call[p].pre = FreshRow
        /\ call[p].hour = 22
        /\ row.experience_points = 110
        /\ Unlocked(row) = {"freshman", "night_owl"}

\* C9: resetUserStats of a signed-in user leaves experience 0, level 1, 0 messages,
\* no badge and no topic, in one store write: until that write the row is the one
\* the call started on.
C9_ResetUserStats ==
    \A p \in Procs :
        call[p].fn = "resetUserStats" =>
            IF result[p].kind = "running"
            THEN row = call[p].pre /\ Len(stack[p]) = 1
            ELSE /\ result[p] = [kind |-> "value", val |-> "void"]
                 /\ row.experience_points = 0
                 /\ row.level = 1
                 /\ row.total_messages = 0
                 /\ row.badges_unlocked = <<>>
                 /\ row.topics_explored = <<>>

\* C9 witness: a row with experience, badges and topics has been reset
C9_Witness ==
    \E p \in Procs :
        /\ Finished(p, "resetUserStats")
        /\ call[p].pre.level >= 3
        /\ Cardinality(Unlocked(call[p].pre)) >= 2
        /\ Len(call[p].pre.topics_explored) >= 3
        /\ row.experience_points = 0

\* the select of a direct getUserStats call of p does not reach the store (guest) or
\* comes back with an error, in this step
DefaultedRead(p) ==
    /\ At(p, "getUserStats", "read")
    /\ stack'[p] # stack[p]
    /\ userId = NoUser \/ faults' < faults

\* C10: getUserStats never raises and never writes: for a guest, and when the select
\* fails, it resolves with the default progress (experience 0, level 1, every
\* catalogue badge locked, no topic, 0 messages) whatever the row holds, and the row
\* is left as it was.
C10_GetUserStatsFailsOpen ==
    [][\A p \in Procs :
          (At(p, "getUserStats", "read") /\ stack'[p] # stack[p])
          => /\ row' = row
             /\ result'[p].kind = "value"
             /\ DefaultedRead(p) =>
                   /\ result'[p].val.experience = 0
                   /\ result'[p].val.level = 1
                   /\ result'[p].val.messagesCount = 0
                   /\ result'[p].val.topicsExplored = <<>>
                   /\ IdsOf(result'[p].val.badges) = CatalogueIds
                   /\ \A i \in DOMAIN result'[p].val.badges :
                         ~result'[p].val.badges[i].unlocked]_vars

\* C10 witness: the select of a signed-in user with stored progress failed and
\* getUserStats resolved with the default progress
C10_Witness ==
    \E p \in Procs :
        /\ Finished(p, "getUserStats")
        /\ userId = TheUser
        /\ faults < MaxFaults
        /\ row = VeteranRow
        /\ call[p].pre = VeteranRow
        /\ result[p].val.experience = 0


\* the mutating operations said to fall back to default progress for a guest
GuestOps ==
    {"addExperience", "unlockBadge", "addExploredTopic", "incrementMessageCount",
     "processUserInteraction"}

\* C11 (the claim as made): with no authenticated user no step of addExperience,
\* unlockBadge, addExploredTopic, incrementMessageCount or processUserInteraction
\* raises, and none writes the store; only resetUserStats raises.
C11_GuestNeverRaises ==
    [][\A p \in Procs :
          (/\ userId = NoUser
           /\ stack[p] # <<>>
           /\ call[p].fn \in GuestOps
           /\ stack'[p] # stack[p])
          => /\ result'[p].kind # "raised"
             /\ row' = row]_vars

\* caller p's pending store access is an update, and it fails in this step
WriteFails(p) ==
    /\ stack[p] # <<>>
    /\ top(p).pc = "write"
    /\ stack'[p] # stack[p]
    /\ faults' < faults

\* caller p's pending access is the topic write of its processUserInteraction call
AtTopicWrite(p) ==
    /\ At(p, "addExploredTopic", "write")
    /\ Len(stack[p]) = 2
    /\ stack[p][2].fn = "processUserInteraction"

\* the topics of the call's list that come before the one being written
EarlierTopics(p) ==
    Range(SubSeq(call[p].arg, 1, Len(call[p].arg) - Len(stack[p][2].topics) - 1))

\* C12: a store update that fails inside a mutating operation ends the caller's call
\* with the store's error and leaves the row as it is.  When it is a topic write of
\* processUserInteraction that fails (no other request of the behaviour having
\* failed), total_messages stays at one more than when the call began, the experience
\* keeps its +10 (and +50 for each badge unlocked so far), and neither the failing
\* topic nor a later one is recorded.
C12_WriteFailureNoRollback ==
    [][\A p \in Procs :
          WriteFails(p) =>
              /\ stack'[p] = <<>>
              /\ result'[p] = Raised("store error")
              /\ row' = row
              /\ (AtTopicWrite(p) /\ faults = MaxFaults) =>
                    LET pre == call[p].pre
                        gained == Unlocked(row') \ Unlocked(pre)
                    IN  /\ row'.total_messages = pre.total_messages + 1
                        /\ row'.experience_points
                              = pre.experience_points + 10 + 50 * Cardinality(gained)
                        /\ top(p).topic \notin Range(row'.topics_explored)
                        /\ Range(row'.topics_explored)
                              \subseteq Range(pre.topics_explored) \cup EarlierTopics(p)]_vars

\* C12 witness: processUserInteraction(["food", "transit"]) on a fresh row raised at
\* the write of transit; the message, freshman and food stay stored
C12_Witness ==
    \E p \in Procs :
        /\ Idle(p)
        /\ call[p].fn = "processUserInteraction"
        /\ call[p].arg = <<"food", "transit">>
        /\ call[p].pre = FreshRow
        /\ call[p].hour = 6
        /\ result[p] = Raised("store error")
        /\ row.total_messages = 1
        /\ row.experience_points = 60
        /\ row.topics_explored = <<"food">>


\* what processUserInteraction returns from the snapshot oldStats and the row its
\* second snapshot is read from
SnapshotDiffers(ret, oldStats, second) ==
    /\ ret.leveledUp = (second.level > oldStats.level)
    /\ "scholar" \notin IdsOf(ret.newBadges)

\* C13: when the second snapshot of processUserInteraction has level >= 5 and scholar
\* locked, the call goes on to unlockBadge('scholar'), which stores scholar and adds 50
\* experience, while the value it returns was fixed before: newBadges without scholar
\* and leveledUp = (second snapshot's level > first snapshot's level).  When the second
\* snapshot has level < 5 the call ends there and scholar stays as it was.
C13_ScholarNotInDiff ==
    /\ [][\A p \in Procs :
            (At(p, "processUserInteraction", "new") /\ stack'[p] # stack[p]) =>
                /\ row' = row
                /\ (row.level >= 5 /\ "scholar" \notin Unlocked(row)) =>
                      /\ Len(stack'[p]) = 2
                      /\ stack'[p][1] = unlockBadgeFrame("scholar")
                      /\ SnapshotDiffers(stack'[p][2].ret, top(p).oldStats, row)
                /\ row.level < 5 =>
                      /\ stack'[p] = <<>>
                      /\ result'[p].kind = "value"
                      /\ SnapshotDiffers(result'[p].val, top(p).oldStats, row)]_vars
    /\ [](\A p \in Procs :
            Finished(p, "processUserInteraction") =>
                LET pre == call[p].pre
                    gained == Unlocked(row) \ Unlocked(pre)
                    \* the row the second snapshot was read from
                    second == IF "scholar" \in gained
                              THEN row.experience_points - 50
                              ELSE row.experience_points
                IN  /\ (calculateLevel(second) >= 5 /\ "scholar" \notin Unlocked(pre))
                          => "scholar" \in gained
                    /\ calculateLevel(second) < 5 => "scholar" \notin gained
                    /\ row.experience_points
                          = pre.experience_points + 10 + 50 * Cardinality(gained)
                    /\ "scholar" \notin IdsOf(result[p].val.newBadges)
                    /\ result[p].val.leveledUp = (calculateLevel(second) > pre.level))

\* C13 witness: a call on the level-5 row with 440 experience took its second snapshot
\* at 450, then unlocked scholar: 500 experience and level 6 are stored, and the call
\* returned leveledUp = false and no new badge
C13_Witness ==
    \E p \in Procs :
        /\ Finished(p, "processUserInteraction")
        /\ call[p].pre = SeniorRow
        /\ "scholar" \in Unlocked(row)
        /\ row.experience_points = 500
        /\ row.level = 6
        /\ result[p].val.leveledUp = FALSE
        /\ result[p].val.newBadges = <<>>


\* the experience the finished addExperience call of p read: what it returned less
\* what it added
BaseOf(p) == result[p].val.experience - call[p].arg

\* both callers have read message count n for an incrementMessageCount call and
\* neither has written yet
BothReadCount(n) ==
    \A p \in Procs :
        /\ At(p, "incrementMessageCount", "write")
        /\ Len(stack[p]) = 1
        /\ top(p).newCount = n + 1

BothDone(fn) == \A p \in Procs : Finished(p, fn)

\* C14: no call of two overlapping callers raises, and an update is lost when both
\* read before either writes.  Two finished addExperience calls that read the same
\* experience leave that experience plus the amount of one of them, less than the sum
\* of both; two incrementMessageCount calls that both read count n before either
\* wrote leave n + 1 when both have resolved (no further call started), not n + 2.
C14_LostUpdate ==
    /\ [](\A p \in Procs : result[p].kind # "raised")
    /\ [](\A p, q \in Procs :
            (/\ p # q
             /\ Finished(p, "addExperience")
             /\ Finished(q, "addExperience")
             /\ BaseOf(p) = BaseOf(q))
            => /\ row.experience_points \in {BaseOf(p) + call[p].arg,
                                             BaseOf(q) + call[q].arg}
               /\ row.experience_points < BaseOf(p) + call[p].arg + call[q].arg)
    /\ \A n \in 0..MaxRaceCalls, b \in 0..MaxRaceCalls :
          []((BothReadCount(n) /\ budget = b)
                => []((BothDone("incrementMessageCount") /\ budget = b)
                         => row.total_messages = n + 1))

\* C14 witness: exactly two calls were made on the fresh row, both incrementMessageCount
\* at daytime, both have resolved, and the row holds one message; the experience
\* (10 for one message and 50 for freshman) is less than the 20 + 50 of two messages
C14_Witness ==
    /\ BothDone("incrementMessageCount")
    /\ budget = MaxRaceCalls - 2
    /\ \A p \in Procs : call[p].hour = 6 /\ result[p].kind = "value"
    /\ row.total_messages = 1
    /\ row.experience_points = 60


\* the unlockBadge call that p is about to read for has an id outside the catalogue,
\* or an id that the snapshot it reads in this step shows as unlocked
NothingToUnlock(p) ==
    \/ top(p).badgeId \notin CatalogueIds
    \/ /\ userId # NoUser
       /\ faults' = faults
       /\ top(p).badgeId \in Unlocked(row)

\* C15: unlockBadge with an id that is not in the catalogue, or that its snapshot
\* shows as unlocked, returns false at its read: the row is left as it is, no update
\* is started and nothing is raised; a direct call resolves with false.
C15_UnlockBadgeNoOp ==
    [][\A p \in Procs :
          (/\ At(p, "unlockBadge", "read")
           /\ stack'[p] # stack[p]
           /\ NothingToUnlock(p))
          => /\ row' = row
             /\ result'[p].kind # "raised"
             /\ stack'[p] # <<>> =>
                   ~(Head(stack'[p]).fn = "unlockBadge" /\ Head(stack'[p]).pc = "write")
             /\ Len(stack[p]) = 1 =>
                   /\ stack'[p] = <<>>
                   /\ result'[p] = Value(FALSE)]_vars

\* C15 witness: unlockBadge('explorer') on the row that holds explorer resolved with
\* false and the row is as before
C15_Witness ==
    \E p \in Procs :
        /\ Finished(p, "unlockBadge")
        /\ call[p].arg = "explorer"
        /\ call[p].pre = VeteranRow
        /\ faults = MaxFaults
        /\ result[p] = Value(FALSE)
        /\ row = VeteranRow


\* the ids a snapshot shows as unlocked
UnlockedIn(stats) == {stats.badges[i].id : i \in {j \in DOMAIN stats.badges : stats.badges[j].unlocked}}

\* the snapshot processUserInteraction takes in this step: the default progress when
\* the select fails
SecondSnapshot ==
    IF userId = NoUser \/ faults' < faults THEN DefaultStats ELSE mergedStats(row)

\* what the call of p is going to return, once its second snapshot is taken
ReturnedAfter(p) ==
    IF stack'[p] = <<>> THEN result'[p].val ELSE stack'[p][Len(stack'[p])].ret

\* C16: the newBadges that processUserInteraction computes by position are the badges
\* whose id is unlocked in the second snapshot and locked in the first, each once and
\* in catalogue order, for every pair of snapshots the call takes (a snapshot is the
\* default progress after a failed select); both snapshots list the catalogue's ids
\* in the catalogue's order.
C16_PositionalDiffIsIdDiff ==
    [][\A p \in Procs :
          (At(p, "processUserInteraction", "new") /\ stack'[p] # stack[p]) =>
              LET oldStats == top(p).oldStats
                  newStats == SecondSnapshot
                  got == ReturnedAfter(p).newBadges
                  idDiff == UnlockedIn(newStats) \ UnlockedIn(oldStats)
              IN  /\ IdsOf(got) = idDiff
                  /\ Len(got) = Cardinality(idDiff)
                  /\ \A i \in DOMAIN got : got[i].unlocked
                  /\ Len(oldStats.badges) = Len(INITIAL_BADGES)
                  /\ Len(newStats.badges) = Len(INITIAL_BADGES)
                  /\ \A i \in DOMAIN INITIAL_BADGES :
                        /\ oldStats.badges[i].id = INITIAL_BADGES[i].id
                        /\ newStats.badges[i].id = INITIAL_BADGES[i].id]_vars

\* C16 witness: the first select of a call on the veteran's row failed, so the first
\* snapshot was the default progress, and the call returned freshman, explorer and
\* night_owl as new badges
C16_Witness ==
    \E p \in Procs :
        /\ Finished(p, "processUserInteraction")
        /\ call[p].pre = VeteranRow
        /\ faults < MaxFaults
        /\ IdsOf(result[p].val.newBadges) = {"freshman", "explorer", "night_owl"}


\* C17: from a fresh row, with one caller and a store that never fails, whenever no
\* call is pending after any sequence of incrementMessageCount, addExploredTopic,
\* unlockBadge, processUserInteraction and resetUserStats calls, the stored experience
\* is 10 for each stored message plus 50 for each stored badge.
C17_ExperienceAccounting ==
    (\A p \in Procs : Idle(p)) =>
        row.experience_points
            = 10 * row.total_messages + 50 * Cardinality(Unlocked(row))

\* C17 witness: after a reset, a message sent at night with two topics and a third
\* topic explored, the row holds 1 message and 3 badges: 160 experience
C17_Witness ==
    \E p \in Procs :
        /\ Idle(p)
        /\ result[p].kind = "value"
        /\ budget <= MaxAccountCalls - 3
        /\ row.total_messages = 1
        /\ Unlocked(row) = {"freshman", "night_owl", "explorer"}
        /\ row.experience_points = 160
        /\ row.level = 2


\* the first function call of the first response, when there is one
FirstCallIsDisplayMap ==
    /\ chat.first.kind = "response"
    /\ chat.first.functionCalls # <<>>
    /\ chat.first.functionCalls[1].name = "display_map"
    /\ chat.first.functionCalls[1].hasName

\* some location of the campus in use has coordinates and matches the requested name
MappedLocationMatches ==
    LET locations == getCampusDataForId(chat.universityId).locations
        locName == chat.first.functionCalls[1].location_name
    IN  \E i \in DOMAIN locations :
            /\ locations[i].hasCoordinates
            /\ MatchesName(locations[i], locName)
            /\ chat.result.mapLocation = MapAt(locations[i])

\* C18: a generateResponse call that found no key, or has a client, never rejects:
\* whatever the model calls come back with (text, nothing, a function call, an error
\* at the first or at the follow-up call) it resolves with a non-empty text; and its
\* result has a mapLocation only when the first function call is display_map, a
\* location with coordinates matches the requested name, and the follow-up call
\* came back without an error.
C18_GenerateResponseNeverRejects ==
    chat.pc = "done" =>
        /\ chat.result.kind = "resolved"
        /\ chat.result.text # ""
        /\ chat.result.mapLocation.defined =>
              /\ FirstCallIsDisplayMap
              /\ MappedLocationMatches
              /\ chat.second = "answered"

\* C18 witness: with a client, the model asked for a map of "aHUB", the follow-up call
\* returned no text and the first response had none: the call resolved with the
\* empty-response text and the Hub's coordinates
C18_Witness ==
    /\ chat.pc = "done"
    /\ ai = "client"
    /\ chat.universityId = "uoft"
    /\ chat.second = "answered"
    /\ chat.result.mapLocation.defined
    /\ chat.result.mapLocation.name = <<"H", "u", "b">>
    /\ chat.result.text = orEmptyResponse("")

=============================================================================
